---- MODULE Spec2Model ----
(***************************************************************************)
(* The packaging recipe MyLobsterPPConan (conanfile.py) as a state machine. *)
(*                                                                         *)
(* One invocation of the recipe: the option overrides and the platform are *)
(* the inputs, fixed in Init; the recipe's methods layout, generate,       *)
(* build, package and package_info are the actions.  Every call a method   *)
(* makes into the external toolchain (cmake_layout, tc.generate,           *)
(* deps.generate, cmake.configure, cmake.build, cmake.install) is appended *)
(* to the call log together with its outcome.  A Python value is written   *)
(* as its text: True is "True", False is "False".                          *)
(***************************************************************************)
EXTENDS Naturals, Sequences, FiniteSets, TLC

VARIABLES
    overrides,      \* input: the option overrides of the invocation (partial mapping)
    os,             \* input: self.settings.os
    pc,             \* position of the invocation in the recipe's lifecycle
    opts,           \* self.options once resolved, the empty mapping before
    calls,          \* log of the external calls made so far: [call, ok]
    toolchain,      \* content of the toolchain file tc.generate() wrote, empty before
    descriptor,     \* dependency descriptor files deps.generate() wrote: [written, entries]
    build_outputs,  \* artifact categories present in the build folder
    package_layout, \* artifact categories installed in the package folder
    cpp_info,       \* self.cpp_info as package_info() set it, empty before
    error,          \* the error that ended the invocation, "none" otherwise
    exit            \* "running", "zero" or "nonzero"

vars == <<overrides, os, pc, opts, calls, toolchain, descriptor, build_outputs,
          package_layout, cpp_info, error, exit>>

\* ------------------------------------------------------------- input domains

\* Values of settings.os the model draws from: the two anticipated families,
\* other POSIX systems, Windows variants under another name, and a platform
\* that is neither.
OSValues == {"Windows", "Linux", "Macos", "FreeBSD", "WindowsStore", "baremetal"}

\* Option names an override may use: the two declared ones and one unknown.
OverrideNames == {"shared", "build_executable", "with_tests"}

\* Values an override may give: the two booleans and a non-boolean.
OverrideValues == {"True", "False", "yes"}

OverrideMappings == UNION {[D -> OverrideValues] : D \in SUBSET OverrideNames}

\* Artifact categories of a build.
Artifacts == {"library", "executable"}

Empty == [k \in {} |-> "none"]

\* ------------------------------------------------------- recipe declarations

\* Faulty variant: the domain of shared also admits a non-boolean.
options_lenient ==
    [shared |-> {"True", "False", "yes"}, build_executable |-> {"True", "False"}]

\* options = {"shared": [True, False], "build_executable": [True, False]}
options ==
    [shared |-> {"True", "False"}, build_executable |-> {"True", "False"}]

\* Faulty variant: shared defaults to True.
default_options_shared_on ==
    [shared |-> "True", build_executable |-> "True"]

\* default_options = {"shared": False, "build_executable": True}
default_options ==
    [shared |-> "False", build_executable |-> "True"]

\* The recipe declares no requires: dependencies come with CMake FetchContent.
dependencies == {}

\* ------------------------------------------------------------ option set

\* An override mapping is accepted when every name is a declared option and
\* every value lies in that option's declared domain.
valid(ov) ==
    \A k \in DOMAIN ov : k \in DOMAIN options /\ ov[k] \in options[k]

\* The resolved options: the override where given, the declared default otherwise.
resolve(ov) ==
    [k \in DOMAIN options |-> IF k \in DOMAIN ov THEN ov[k] ELSE default_options[k]]

\* ------------------------------------------------------------ call log

Call(name, ok) == [call |-> name, ok |-> ok]

Called(cs, name) == \E i \in 1..Len(cs) : cs[i].call = name

Succeeded(cs, name) == \E i \in 1..Len(cs) : cs[i].call = name /\ cs[i].ok

Failed(cs, name) == \E i \in 1..Len(cs) : cs[i].call = name /\ ~cs[i].ok

Count(cs, name) == Cardinality({i \in 1..Len(cs) : cs[i].call = name})

\* Faulty variant: the method catches the failure of its calls and returns normally.
raised_swallowed(made) == FALSE

\* No method of the recipe catches an exception: a method raises exactly when
\* a call it made raised.
raised(made) == \E i \in 1..Len(made) : ~made[i].ok

\* ------------------------------------------------------------ the methods

\* self, as the methods read it.
Self == [options |-> opts, settings |-> [os |-> os], packaged |-> package_layout # {}]

\* layout(): cmake_layout(self).
layout_calls(l_ok) == <<Call("cmake_layout", l_ok)>>

\* Faulty variant: the test flag follows build_executable instead of being forced off.
tc_variables_tests_on(self) ==
    [MYLOBSTER_BUILD_TESTS |-> self.options.build_executable,
     MYLOBSTER_BUILD_SHARED |-> self.options.shared,
     MYLOBSTER_BUILD_EXECUTABLE |-> self.options.build_executable]

\* generate(): the variables set on the CMakeToolchain before it is written.
tc_variables(self) ==
    [MYLOBSTER_BUILD_TESTS |-> "False",
     MYLOBSTER_BUILD_SHARED |-> self.options.shared,
     MYLOBSTER_BUILD_EXECUTABLE |-> self.options.build_executable]

\* Faulty variant: generate() stops after the toolchain file and emits no descriptor.
generate_calls_no_deps(t_ok, d_ok) == <<Call("tc.generate", t_ok)>>

\* generate(): tc.generate(), then deps.generate(); a raising call ends the method.
generate_calls(t_ok, d_ok) ==
    <<Call("tc.generate", t_ok)>>
        \o (IF t_ok THEN <<Call("deps.generate", d_ok)>> ELSE <<>>)

\* Faulty variant: the build phase runs whatever the configure phase returned.
build_calls_unconditional(c_ok, b_ok) ==
    <<Call("cmake.configure", c_ok), Call("cmake.build", b_ok)>>

\* Faulty variant: a failed configure phase is tried a second time.
build_calls_retry(c_ok, b_ok) ==
    IF c_ok
    THEN <<Call("cmake.configure", c_ok), Call("cmake.build", b_ok)>>
    ELSE <<Call("cmake.configure", FALSE), Call("cmake.configure", FALSE)>>

\* build(): cmake.configure(), then cmake.build(); a raising call ends the method.
build_calls(c_ok, b_ok) ==
    <<Call("cmake.configure", c_ok)>>
        \o (IF c_ok THEN <<Call("cmake.build", b_ok)>> ELSE <<>>)

\* package(): cmake.install().
package_calls(i_ok) == <<Call("cmake.install", i_ok)>>

\* Faulty variant: the Windows library is appended to the POSIX one instead of replacing it.
package_info_append(self) ==
    [libs |-> <<"mylobster_lib">>,
     cmake_file_name |-> "mylobster",
     cmake_target_name |-> "mylobster::mylobster",
     requires |-> <<>>,
     system_libs |-> IF self.settings.os = "Windows"
                     THEN <<"pthread", "ws2_32">> ELSE <<"pthread">>]

\* Faulty variant: the link libraries follow the build_executable option.
package_info_by_option(self) ==
    [libs |-> IF self.options.build_executable = "True"
              THEN <<"mylobster_lib">> ELSE <<>>,
     cmake_file_name |-> "mylobster",
     cmake_target_name |-> "mylobster::mylobster",
     requires |-> <<>>,
     system_libs |-> IF self.settings.os = "Windows"
                     THEN <<"ws2_32">> ELSE <<"pthread">>]

\* package_info(): the fields it sets on self.cpp_info, in the order it sets
\* them: system_libs is first ["pthread"], then overwritten when os is Windows.
package_info(self) ==
    LET posix == [libs |-> <<"mylobster_lib">>,
                  cmake_file_name |-> "mylobster",
                  cmake_target_name |-> "mylobster::mylobster",
                  requires |-> <<>>,
                  system_libs |-> <<"pthread">>]
    IN  IF self.settings.os = "Windows"
        THEN [posix EXCEPT !.system_libs = <<"ws2_32">>]
        ELSE posix

\* ---------------------------------------------------- external collaborators

\* The artifact categories the options ask the build to produce.
RequiredArtifacts(o) ==
    {"library"} \cup (IF o.build_executable = "True" THEN {"executable"} ELSE {})

\* The toolchain's install step can succeed only on build outputs that hold
\* every category the build was configured for.
cmake_install_can_succeed(outs, o) ==
    outs # {} /\ RequiredArtifacts(o) \subseteq outs

\* The lifecycle that drives the recipe: a method runs at its stage, a method
\* that raised ends the invocation with a non-zero exit, and the invocation
\* exits zero once the last stage has returned.
Run(from, to, failed, err) ==
    /\ pc = from
    /\ pc' = IF failed THEN "aborted" ELSE to
    /\ error' = IF failed THEN err ELSE error
    /\ exit' = IF failed THEN "nonzero" ELSE IF to = "done" THEN "zero" ELSE exit

\* ------------------------------------------------------------------ actions

Init ==
    /\ overrides \in OverrideMappings
    /\ os \in OSValues
    /\ pc = "start"
    /\ opts = Empty
    /\ calls = <<>>
    /\ toolchain = Empty
    /\ descriptor = [written |-> FALSE, entries |-> {}]
    /\ build_outputs = {}
    /\ package_layout = {}
    /\ cpp_info = Empty
    /\ error = "none"
    /\ exit = "running"

\* The options are resolved from the declarations before any method runs.
Resolve ==
    /\ pc = "start"
    /\ IF valid(overrides)
       THEN /\ opts' = resolve(overrides)
            /\ pc' = "resolved"
            /\ UNCHANGED <<error, exit>>
       ELSE /\ opts' = opts
            /\ pc' = "rejected"
            /\ error' = "InvalidOptionError"
            /\ exit' = "nonzero"
    /\ UNCHANGED <<overrides, os, calls, toolchain, descriptor, build_outputs,
                   package_layout, cpp_info>>

Layout ==
    \E l_ok \in BOOLEAN :
        LET made == layout_calls(l_ok)
        IN  /\ Run("resolved", "laid_out", raised(made), "LayoutError")
            /\ calls' = calls \o made
            /\ UNCHANGED <<overrides, os, opts, toolchain, descriptor,
                           build_outputs, package_layout, cpp_info>>

Generate ==
    \E t_ok \in BOOLEAN, d_ok \in BOOLEAN :
        LET made == generate_calls(t_ok, d_ok)
        IN  /\ Run("laid_out", "generated", raised(made), "ConfigurationWriteError")
            /\ calls' = calls \o made
            /\ toolchain' = IF Succeeded(made, "tc.generate")
                            THEN tc_variables(Self) ELSE toolchain
            /\ descriptor' = IF Succeeded(made, "deps.generate")
                             THEN [written |-> TRUE, entries |-> dependencies]
                             ELSE descriptor
            /\ UNCHANGED <<overrides, os, opts, build_outputs, package_layout,
                           cpp_info>>

Build ==
    \E c_ok \in BOOLEAN, b_ok \in BOOLEAN, outs \in SUBSET Artifacts :
        LET made == build_calls(c_ok, b_ok)
        IN  /\ Run("generated", "built", raised(made), "BuildError")
            /\ calls' = calls \o made
            /\ build_outputs' = IF Called(made, "cmake.build") THEN outs ELSE {}
            /\ UNCHANGED <<overrides, os, opts, toolchain, descriptor,
                           package_layout, cpp_info>>

Package ==
    \E i_ok \in BOOLEAN :
        /\ i_ok => cmake_install_can_succeed(build_outputs, opts)
        /\ LET made == package_calls(i_ok)
           IN  /\ Run("built", "packaged", raised(made), "InstallError")
               /\ calls' = calls \o made
               /\ package_layout' = IF raised(made) THEN {} ELSE build_outputs
        /\ UNCHANGED <<overrides, os, opts, toolchain, descriptor, build_outputs,
                       cpp_info>>

\* package_info() ends the invocation after package(); a consumer also reads
\* it for resolved options whether or not the package was ever built.
PackageInfo ==
    /\ pc \in {"resolved", "laid_out", "generated", "built", "packaged", "aborted"}
    /\ cpp_info' = package_info(Self)
    /\ IF pc = "packaged"
       THEN Run("packaged", "done", FALSE, "none")
       ELSE UNCHANGED <<pc, error, exit>>
    /\ UNCHANGED <<overrides, os, opts, calls, toolchain, descriptor,
                   build_outputs, package_layout>>

Next ==
    \/ Resolve
    \/ Layout
    \/ Generate
    \/ Build
    \/ Package
    \/ PackageInfo

Spec == Init /\ [][Next]_vars

\* ------------------------------------------------------------ state predicates

Resolved == pc \notin {"start", "rejected"}

ToolchainWritten == DOMAIN toolchain # {}

Published == DOMAIN cpp_info # {}

\* The order in which one invocation calls into the toolchain.
StageOrder ==
    <<"cmake_layout", "tc.generate", "deps.generate", "cmake.configure",
      "cmake.build", "cmake.install">>

\* ------------------------------------------------------------------- claims

\* C1: whatever the resolved options and the platform, the toolchain
\* configuration that generate wrote holds exactly three flags: the test flag
\* is False, the shared flag is options.shared, the executable flag is
\* options.build_executable.
C1_ToolchainConfiguration ==
    ToolchainWritten =>
        /\ DOMAIN toolchain = {"MYLOBSTER_BUILD_TESTS", "MYLOBSTER_BUILD_SHARED",
                               "MYLOBSTER_BUILD_EXECUTABLE"}
        /\ toolchain["MYLOBSTER_BUILD_TESTS"] = "False"
        /\ toolchain["MYLOBSTER_BUILD_SHARED"] = opts["shared"]
        /\ toolchain["MYLOBSTER_BUILD_EXECUTABLE"] = opts["build_executable"]

\* C1 witness: a configuration written for non-default options on Windows,
\* with the executable requested.
C1_Witness ==
    /\ ToolchainWritten
    /\ os = "Windows"
    /\ opts["shared"] = "True"
    /\ opts["build_executable"] = "True"
    /\ toolchain["MYLOBSTER_BUILD_TESTS"] = "False"

\* C2: the published system_libs is exactly ["ws2_32"] when os is Windows (the
\* POSIX entry is replaced) and exactly ["pthread"] when os is Linux, macOS or
\* another POSIX system.
C2_SystemLibsByOS ==
    Published =>
        /\ os = "Windows" => cpp_info.system_libs = <<"ws2_32">>
        /\ os \in {"Linux", "Macos", "FreeBSD"} => cpp_info.system_libs = <<"pthread">>

\* C2 witness: package_info has published on Windows.
C2_Witness == Published /\ os = "Windows" /\ Len(cpp_info.system_libs) = 1

\* The platforms the system-library selection recognizes: Windows and the
\* POSIX-like families.
RecognizedOS == {"Windows", "Linux", "Macos", "FreeBSD"}

\* C3: for an os that is neither Windows nor a recognized POSIX-like family,
\* package_info fails closed: it never publishes a cpp_info, so no system_libs
\* list is defaulted for such a platform.
C3_FailsClosed ==
    os \notin RecognizedOS => ~Published

\* C4: the calls into the toolchain follow the stage order generate, build,
\* package, each at most once; nothing is called after a call that failed; the
\* invocation exits non-zero whenever a stage failed and exits zero only after
\* every stage succeeded and package_info published.
C4_PipelineOrder ==
    /\ Len(calls) <= Len(StageOrder)
    /\ \A i \in 1..Len(calls) : calls[i].call = StageOrder[i]
    /\ \A i \in 1..Len(calls) : ~calls[i].ok => i = Len(calls)
    /\ (\E i \in 1..Len(calls) : ~calls[i].ok) =>
           /\ exit = "nonzero"
           /\ pc = "aborted"
           /\ error \in {"LayoutError", "ConfigurationWriteError", "BuildError",
                         "InstallError"}
    /\ exit = "zero" =>
           /\ pc = "done"
           /\ Len(calls) = Len(StageOrder)
           /\ \A i \in 1..Len(calls) : calls[i].ok
           /\ Published
    /\ pc = "done" => exit = "zero"

\* C4 witness: the build stage failed after generate succeeded, and the
\* invocation has ended non-zero without reaching package.
C4_Witness ==
    /\ Succeeded(calls, "deps.generate")
    /\ Failed(calls, "cmake.configure")
    /\ ~Called(calls, "cmake.install")
    /\ exit = "nonzero"

\* C5: build() calls the configure phase before the build phase, calls the
\* build phase only after configure succeeded, and returns normally only if
\* both succeeded; a failure of either phase is a BuildError that leaves no
\* build result to the later stages, and no phase is called twice.
C5_TwoPhaseBuild ==
    /\ \A i \in 1..Len(calls) :
           calls[i].call = "cmake.build" =>
               i > 1 /\ calls[i - 1].call = "cmake.configure" /\ calls[i - 1].ok
    /\ Count(calls, "cmake.configure") <= 1
    /\ Count(calls, "cmake.build") <= 1
    /\ (pc \in {"built", "packaged", "done"} \/ Called(calls, "cmake.install")) =>
           Succeeded(calls, "cmake.configure") /\ Succeeded(calls, "cmake.build")
    /\ (Failed(calls, "cmake.configure") \/ Failed(calls, "cmake.build")) =>
           /\ pc = "aborted"
           /\ error = "BuildError"
           /\ package_layout = {}
           /\ calls[Len(calls)].call \in {"cmake.configure", "cmake.build"}

\* C5 witness: the configure phase failed, so the build phase was not called.
C5_Witness ==
    /\ Failed(calls, "cmake.configure")
    /\ ~Called(calls, "cmake.build")
    /\ error = "BuildError"

\* The option names and the value domain the recipe declares, as the claims
\* about option resolution state them.
DeclaredNames == {"shared", "build_executable"}

DeclaredDomain == {"True", "False"}

InvalidOverrides ==
    \E k \in DOMAIN overrides : k \notin DeclaredNames \/ overrides[k] \notin DeclaredDomain

\* C6: an override mapping that names an unrecognized option or gives a value
\* outside {True, False} is refused with InvalidOptionError: no options are
\* resolved, no toolchain configuration is written, no stage runs and nothing
\* else changes.
C6_InvalidOptionRejected ==
    InvalidOverrides =>
        /\ pc \in {"start", "rejected"}
        /\ pc = "rejected" => error = "InvalidOptionError"
        /\ opts = Empty
        /\ ~ToolchainWritten
        /\ calls = <<>>
        /\ ~descriptor.written
        /\ build_outputs = {}
        /\ package_layout = {}
        /\ ~Published

\* C6 witness: the override shared = "yes" has been refused.
C6_Witness ==
    /\ DOMAIN overrides = {"shared"}
    /\ overrides["shared"] = "yes"
    /\ pc = "rejected"
    /\ error = "InvalidOptionError"

C8_ResolveDefaults ==
    /\ (~InvalidOverrides /\ pc # "start") => Resolved
    /\ Resolved =>
        /\ DOMAIN opts = DeclaredNames
        /\ \A k \in DeclaredNames : opts[k] \in DeclaredDomain
        /\ \A k \in DeclaredNames \cap DOMAIN overrides : opts[k] = overrides[k]
        /\ "shared" \notin DOMAIN overrides => opts["shared"] = "False"
        /\ "build_executable" \notin DOMAIN overrides => opts["build_executable"] = "True"
        /\ resolve(opts) = opts
        /\ resolve(overrides) = opts

\* C8 witness: only shared is overridden, build_executable takes its default.
C8_Witness ==
    /\ Resolved
    /\ DOMAIN overrides = {"shared"}
    /\ opts["shared"] = "True"
    /\ opts["build_executable"] = "True"

\* C9: the dependency descriptor generate emits is empty and is written all
\* the same: whenever the build driver has been reached the descriptor file
\* exists, with no entries; the published requires list is empty too.
C9_DescriptorEmitted ==
    /\ descriptor.entries = {}
    /\ Succeeded(calls, "deps.generate") => descriptor.written
    /\ (pc \in {"generated", "built", "packaged", "done"} \/ Called(calls, "cmake.configure")) =>
           descriptor.written
    /\ Published => cpp_info.requires = <<>>

\* C9 witness: the build driver ran with the empty descriptor in place.
C9_Witness ==
    /\ Called(calls, "cmake.configure")
    /\ descriptor.written
    /\ descriptor.entries = {}

\* C10: the published cpp_info is what package_info yields for the same os
\* under every other resolved option set and whether or not a package layout
\* exists; libs, the package and target names and requires are the same on
\* every os, and system_libs is one of the two platform lists.
C10_OptionInvariantInfo ==
    Published =>
        /\ \A o \in [DeclaredNames -> DeclaredDomain], b \in BOOLEAN :
               package_info([Self EXCEPT !.options = o, !.packaged = b]) = cpp_info
        /\ cpp_info.libs = <<"mylobster_lib">>
        /\ cpp_info.cmake_file_name = "mylobster"
        /\ cpp_info.cmake_target_name = "mylobster::mylobster"
        /\ cpp_info.requires = <<>>
        /\ cpp_info.system_libs \in {<<"pthread">>, <<"ws2_32">>}

\* C10 witness: cpp_info was published although the build failed, for
\* options that are not the defaults.
C10_Witness ==
    /\ Published
    /\ error = "BuildError"
    /\ opts["shared"] = "True"
    /\ opts["build_executable"] = "False"

====
